---- MODULE Spec2Model ----
(***************************************************************************)
(* MQTT 3.1 / 3.1.1 packet decoding (mqtt3/src/read.rs, trait MqttRead).   *)
(*                                                                         *)
(* The byte source is a Cursor<Vec<u8>>: `stream` is the vector and `pos`  *)
(* the cursor.  A Take<&mut R> view is an absolute end position: a view    *)
(* created at position p with limit n ends at p + n, and a view nested in  *)
(* another one ends where the first of the two ends.                       *)
(*                                                                         *)
(* usize is taken to be 64 bits wide.  A usize that wrapped below zero is  *)
(* written as the negative integer v that stands for 2^64 + v, so that     *)
(* v # 0 is the test `v > 0` of the code and further subtraction is plain  *)
(* integer subtraction.  An overflowing usize operation either panics (a   *)
(* build with overflow checks) or wraps (a build without).                 *)
(***************************************************************************)
EXTENDS Integers, Sequences, FiniteSets, TLC

VARIABLES
    stream,           \* the bytes of the source
    pos,              \* cursor position: bytes consumed so far
    pc,               \* where the decoder is
    start,            \* cursor position at the start of the current read_packet call
    len_end,          \* cursor position right after the remaining-length field
    header,           \* the Header built by read_packet
    raw_end,          \* end of the view raw_packet = self.take(len)
    result,           \* what the current call returned (or how it ended)
    pid,              \* read_subscribe / read_unsubscribe: packet identifier
    remaining_bytes,  \* read_subscribe / read_unsubscribe: running counter
    topics,           \* read_subscribe / read_unsubscribe: filters read so far
    calls             \* number of read_packet calls made on this stream

vars == <<stream, pos, pc, start, len_end, header, raw_end, result, pid,
          remaining_bytes, topics, calls>>

----------------------------------------------------------------------------
(* Bounds of the model *)

MaxStrLen == 1      \* longest content of a generated string field
MaxTopics == 2      \* most topic filters in a generated SUBSCRIBE / UNSUBSCRIBE
MaxPayload == 2     \* most bytes generated after a PUBLISH topic name
MaxCalls == 2       \* most read_packet calls on one stream
MaxLenBytes == 5    \* longest generated remaining-length field

----------------------------------------------------------------------------
(* Arithmetic helpers *)

Min(a, b) == IF a <= b THEN a ELSE b

RECURSIVE Pow(_, _)
Pow(b, n) == IF n = 0 THEN 1 ELSE b * Pow(b, n - 1)

\* a & b on bytes
RECURSIVE BitAnd(_, _)
BitAnd(a, b) ==
    IF a = 0 \/ b = 0 THEN 0
    ELSE (a % 2) * (b % 2) + 2 * BitAnd(a \div 2, b \div 2)

\* usize values above 2^30 are kept as 2^30: the decoder only ever compares
\* such a value with MULTIPLIER (2^28) and then returns, and a 64-bit usize
\* holds the exact value without overflow.
UsizeCap == Pow(2, 30)

UsizeMul(a, b) == IF a = 0 \/ b <= UsizeCap \div a THEN a * b ELSE UsizeCap

UsizeAdd(a, b) == Min(a + b, UsizeCap)

\* a - b on usize: the outcomes a build can produce
UsizeSub(a, b) ==
    IF a < 0 \/ b <= a
    THEN {[panic |-> FALSE, val |-> a - b]}
    ELSE {[panic |-> TRUE, val |-> 0], [panic |-> FALSE, val |-> a - b]}

----------------------------------------------------------------------------
(* Results of the reading primitives *)

Ok(v, p) == [ok |-> TRUE, err |-> "", val |-> v, pos |-> p]
Err(e, p) == [ok |-> FALSE, err |-> e, val |-> 0, pos |-> p]

\* bytes readable from position p in a view that ends at e
Avail(p, e) == IF Min(e, Len(stream)) > p THEN Min(e, Len(stream)) - p ELSE 0

\* Read::take(limit) on a source whose own view ends at e
take_unbounded(p, n, e) == e
take(p, n, e) == Min(p + n, e)

read_u8(p, e) ==
    IF Avail(p, e) >= 1 THEN Ok(stream[p + 1], p + 1)
    ELSE Err("Io", p)

read_u16(p, e) ==
    IF Avail(p, e) >= 2 THEN Ok(256 * stream[p + 1] + stream[p + 2], p + 2)
    ELSE Err("Io", p + Avail(p, e))

\* std::str::from_utf8 as read_to_string applies it
RECURSIVE ValidUtf8(_, _)
ValidUtf8(s, i) ==
    LET n == Len(s)
        Cont(j) == j <= n /\ s[j] >= 128 /\ s[j] <= 191
        In(j, lo, hi) == j <= n /\ s[j] >= lo /\ s[j] <= hi
        b == s[i]
    IN  IF i > n THEN TRUE
        ELSE IF b < 128 THEN ValidUtf8(s, i + 1)
        ELSE IF b >= 194 /\ b <= 223 THEN Cont(i + 1) /\ ValidUtf8(s, i + 2)
        ELSE IF b = 224 THEN In(i + 1, 160, 191) /\ Cont(i + 2) /\ ValidUtf8(s, i + 3)
        ELSE IF b = 237 THEN In(i + 1, 128, 159) /\ Cont(i + 2) /\ ValidUtf8(s, i + 3)
        ELSE IF b >= 225 /\ b <= 239 THEN Cont(i + 1) /\ Cont(i + 2) /\ ValidUtf8(s, i + 3)
        ELSE IF b = 240 THEN In(i + 1, 144, 191) /\ Cont(i + 2) /\ Cont(i + 3) /\ ValidUtf8(s, i + 4)
        ELSE IF b >= 241 /\ b <= 243 THEN Cont(i + 1) /\ Cont(i + 2) /\ Cont(i + 3) /\ ValidUtf8(s, i + 4)
        ELSE IF b = 244 THEN In(i + 1, 128, 143) /\ Cont(i + 2) /\ Cont(i + 3) /\ ValidUtf8(s, i + 4)
        ELSE FALSE

\* the bytes self.take(len).read_to_string(..) gets: all that are there, up to len
string_bytes(p, len, e) == SubSeq(stream, p + 1, p + Avail(p, take(p, len, e)))

read_mqtt_string(p, e) ==
    LET len == read_u16(p, e)
        string == string_bytes(len.pos, len.val, e)
        q == len.pos + Avail(len.pos, take(len.pos, len.val, e))
    IN  IF ~len.ok THEN len
        ELSE IF ~ValidUtf8(string, 1) THEN Err("InvalidUtf8", q)
        ELSE Ok(string, q)

----------------------------------------------------------------------------
(* read_remaining_length *)

MULTIPLIER == 268435456

length_term_unmasked(byte, mult) == UsizeMul(byte, mult)
length_term(byte, mult) == UsizeMul(BitAnd(byte, 127), mult)

RECURSIVE remaining_length_loop(_, _, _, _)
remaining_length_loop(p, e, mult, len) ==
    LET byte == read_u8(p, e)
        len2 == UsizeAdd(len, length_term(byte.val, mult))
        mult2 == UsizeMul(mult, 128)
    IN  IF ~byte.ok THEN byte
        ELSE IF mult2 > MULTIPLIER THEN Err("MalformedRemainingLength", byte.pos)
        ELSE IF BitAnd(byte.val, 128) = 0 THEN Ok(len2, byte.pos)
        ELSE remaining_length_loop(byte.pos, e, mult2, len2)

read_remaining_length(p, e) == remaining_length_loop(p, e, 1, 0)

----------------------------------------------------------------------------
(* Header, PacketType, QoS, Protocol (mqtt3/src/lib.rs) *)

PacketTypeNames ==
    <<"Connect", "Connack", "Publish", "Puback", "Pubrec", "Pubrel", "Pubcomp",
      "Subscribe", "Suback", "Unsubscribe", "Unsuback", "Pingreq", "Pingresp",
      "Disconnect">>

\* PacketType::from_hd: the high nibble; codes 0 and 15 name no packet type
PacketType_from_hd(hd) ==
    IF hd \div 16 \in 1..14 THEN Ok(PacketTypeNames[hd \div 16], 0)
    ELSE Err("UnsupportedPacketType", 0)

NoHeader == [hd |-> 0, typ |-> "None", len |-> 0]

Header_new(hd, len) ==
    LET typ == PacketType_from_hd(hd)
    IN  IF typ.ok THEN Ok([hd |-> hd, typ |-> typ.val, len |-> len], 0)
        ELSE typ

QoSNames == <<"AtMostOnce", "AtLeastOnce", "ExactlyOnce">>

QoS_from_u8(byte) ==
    IF byte \in 0..2 THEN Ok(QoSNames[byte + 1], 0) ELSE Err("InvalidQoS", 0)

Header_dup(h) == BitAnd(h.hd, 8) # 0
Header_qos(h) == QoS_from_u8(BitAnd(h.hd, 6) \div 2)
Header_retain(h) == BitAnd(h.hd, 1) # 0

MQIsdp == <<77, 81, 73, 115, 100, 112>>
MQTT == <<77, 81, 84, 84>>

Protocol_new(name, level) ==
    IF name = MQIsdp /\ level = 3 THEN Ok([name |-> "MQIsdp", level |-> 3], 0)
    ELSE IF name = MQTT /\ level = 4 THEN Ok([name |-> "MQTT", level |-> 4], 0)
    ELSE Err("InvalidProtocol", 0)

----------------------------------------------------------------------------
(* Outcomes of a decoder: how it ended and where it left the cursor *)

NoPacket == [typ |-> "None"]
NoResult == [kind |-> "none", err |-> "", packet |-> NoPacket]

Returned(packet, p) == [kind |-> "ok", err |-> "", packet |-> packet, pos |-> p]
Failed(e, p) == [kind |-> "err", err |-> e, packet |-> NoPacket, pos |-> p]
Panicked(p) == [kind |-> "panic", err |-> "", packet |-> NoPacket, pos |-> p]

None == [some |-> FALSE]
Some(v) == [some |-> TRUE, val |-> v]

----------------------------------------------------------------------------
(* read_connect *)

\* (connect_flags & 0b00111000) != 0, tested when the will flag is clear
will_bits_set_retain_only(flags) == BitAnd(flags, 32) # 0
will_bits_set(flags) == BitAnd(flags, 56) # 0

read_connect_body(p, e) ==
    LET protocol_name == read_mqtt_string(p, e)
        protocol_level == read_u8(protocol_name.pos, e)
        protocol == Protocol_new(protocol_name.val, protocol_level.val)
        connect_flags == read_u8(protocol_level.pos, e)
        keep_alive == read_u16(connect_flags.pos, e)
        client_id == read_mqtt_string(keep_alive.pos, e)
        flags == connect_flags.val
        has_will == BitAnd(flags, 4) # 0
        will_topic == read_mqtt_string(client_id.pos, e)
        will_message == read_mqtt_string(will_topic.pos, e)
        will_qod == QoS_from_u8(BitAnd(flags, 24) \div 8)
        last_will ==
            IF has_will
            THEN Some([topic |-> will_topic.val, message |-> will_message.val,
                       qos |-> will_qod.val, retain |-> BitAnd(flags, 32) # 0])
            ELSE None
        after_will == IF has_will THEN will_message.pos ELSE client_id.pos
        has_username == BitAnd(flags, 128) # 0
        username == read_mqtt_string(after_will, e)
        after_username == IF has_username THEN username.pos ELSE after_will
        has_password == BitAnd(flags, 64) # 0
        password == read_mqtt_string(after_username, e)
        after_password == IF has_password THEN password.pos ELSE after_username
    IN  IF ~protocol_name.ok THEN Failed(protocol_name.err, protocol_name.pos)
        ELSE IF ~protocol_level.ok THEN Failed(protocol_level.err, protocol_level.pos)
        ELSE IF ~protocol.ok THEN Failed(protocol.err, protocol_level.pos)
        ELSE IF ~connect_flags.ok THEN Failed(connect_flags.err, connect_flags.pos)
        ELSE IF ~keep_alive.ok THEN Failed(keep_alive.err, keep_alive.pos)
        ELSE IF ~client_id.ok THEN Failed(client_id.err, client_id.pos)
        ELSE IF ~has_will /\ will_bits_set(flags)
             THEN Failed("IncorrectPacketFormat", client_id.pos)
        ELSE IF has_will /\ ~will_topic.ok THEN Failed(will_topic.err, will_topic.pos)
        ELSE IF has_will /\ ~will_message.ok THEN Failed(will_message.err, will_message.pos)
        ELSE IF has_will /\ ~will_qod.ok THEN Failed(will_qod.err, will_message.pos)
        ELSE IF has_username /\ ~username.ok THEN Failed(username.err, username.pos)
        ELSE IF has_password /\ ~password.ok THEN Failed(password.err, password.pos)
        ELSE Returned([typ |-> "Connect",
                       protocol |-> protocol.val,
                       keep_alive |-> keep_alive.val,
                       client_id |-> client_id.val,
                       clean_session |-> BitAnd(flags, 2) # 0,
                       last_will |-> last_will,
                       username |-> IF has_username THEN Some(username.val) ELSE None,
                       password |-> IF has_password THEN Some(password.val) ELSE None],
                      after_password)

----------------------------------------------------------------------------
(* read_publish *)

\* header.qos().unwrap() != QoS::AtMostOnce
publish_has_pid(qos) == qos # "AtMostOnce"

\* self.read_to_end(&mut payload): every byte left in the view
read_to_end(p, e) == Ok(SubSeq(stream, p + 1, p + Avail(p, e)), p + Avail(p, e))

read_publish_body(h, p, e) ==
    LET topic_name == read_mqtt_string(p, e)
        qos == Header_qos(h)
        has_pid == publish_has_pid(qos.val)
        pidr == read_u16(topic_name.pos, e)
        after_pid == IF has_pid THEN pidr.pos ELSE topic_name.pos
        payload == read_to_end(after_pid, e)
    IN  IF ~topic_name.ok THEN {Failed(topic_name.err, topic_name.pos)}
        ELSE IF ~qos.ok THEN {Panicked(topic_name.pos)}
        ELSE IF has_pid /\ ~pidr.ok THEN {Failed(pidr.err, pidr.pos)}
        ELSE UNION { UNION {
                 IF s1.panic \/ s2.panic \/ s2.val < 0
                 THEN {Panicked(after_pid)}
                 ELSE {Returned([typ |-> "Publish",
                                 dup |-> Header_dup(h),
                                 qos |-> qos.val,
                                 retain |-> Header_retain(h),
                                 topic_name |-> topic_name.val,
                                 pid |-> IF has_pid THEN Some(pidr.val) ELSE None,
                                 payload |-> payload.val],
                                payload.pos)}
                 : s2 \in UsizeSub(s1.val, 2) }
               : s1 \in UsizeSub(h.len, Len(topic_name.val)) }

----------------------------------------------------------------------------
(* read_subscribe and read_unsubscribe, one loop iteration at a time *)

Continue(p, rb, ts) ==
    [kind |-> "continue", err |-> "", pos |-> p, remaining_bytes |-> rb, topics |-> ts]
Stop(k, e, p, rb, ts) ==
    [kind |-> k, err |-> e, pos |-> p, remaining_bytes |-> rb, topics |-> ts]

\* let pid = read_u16; let mut remaining_bytes = header.len - 2
read_counted_entry(h, p, e) ==
    LET pidr == read_u16(p, e)
    IN  IF ~pidr.ok THEN {Stop("err", pidr.err, pidr.pos, 0, <<>>)}
        ELSE { IF s.panic THEN Stop("panic", "", pidr.pos, 0, <<>>)
               ELSE [kind |-> "continue", err |-> "", pos |-> pidr.pos,
                     remaining_bytes |-> s.val, topics |-> <<>>, pid |-> pidr.val]
               : s \in UsizeSub(h.len, 2) }

\* topic_filter.len() + 3 and topic_filter.len() + 2: what an iteration takes
\* off the counter
subscribe_cost_long(topic_filter) == Len(topic_filter) + 4
subscribe_cost(topic_filter) == Len(topic_filter) + 3
unsubscribe_cost(topic_filter) == Len(topic_filter) + 2

\* one iteration of the while loop of read_subscribe
subscribe_iteration(p, e, rb, ts) ==
    LET topic_filter == read_mqtt_string(p, e)
        requested_qod == read_u8(topic_filter.pos, e)
        qos == QoS_from_u8(requested_qod.val)
    IN  IF ~topic_filter.ok THEN {Stop("err", topic_filter.err, topic_filter.pos, rb, ts)}
        ELSE IF ~requested_qod.ok
             THEN {Stop("err", requested_qod.err, requested_qod.pos, rb, ts)}
        ELSE { IF s.panic THEN Stop("panic", "", requested_qod.pos, rb, ts)
               ELSE IF ~qos.ok THEN Stop("err", qos.err, requested_qod.pos, s.val, ts)
               ELSE Continue(requested_qod.pos, s.val,
                             Append(ts, <<topic_filter.val, qos.val>>))
               : s \in UsizeSub(rb, subscribe_cost(topic_filter.val)) }

\* one iteration of the while loop of read_unsubscribe
unsubscribe_iteration(p, e, rb, ts) ==
    LET topic_filter == read_mqtt_string(p, e)
    IN  IF ~topic_filter.ok THEN {Stop("err", topic_filter.err, topic_filter.pos, rb, ts)}
        ELSE { IF s.panic THEN Stop("panic", "", topic_filter.pos, rb, ts)
               ELSE Continue(topic_filter.pos, s.val, Append(ts, topic_filter.val))
               : s \in UsizeSub(rb, unsubscribe_cost(topic_filter.val)) }

----------------------------------------------------------------------------
(* read_packet up to the dispatch to a body decoder *)

BodyDecoders == {"Connect", "Publish", "Subscribe", "Unsubscribe"}

Dispatch(h, p) ==
    [kind |-> "body", err |-> "", packet |-> NoPacket, pos |-> p]

\* if len == 0 { return match header.typ { .. } }
zero_length_packet_lenient(typ, p) ==
    IF typ = "Pingresp" THEN Returned([typ |-> "Pingresp"], p)
    ELSE Returned([typ |-> "Pingreq"], p)
zero_length_packet(typ, p) ==
    CASE typ = "Pingreq" -> Returned([typ |-> "Pingreq"], p)
      [] typ = "Pingresp" -> Returned([typ |-> "Pingresp"], p)
      [] OTHER -> Failed("PayloadRequired", p)

read_packet_head(p) ==
    LET e == Len(stream)
        hd == read_u8(p, e)
        len == read_remaining_length(hd.pos, e)
        h == Header_new(hd.val, len.val)
    IN  IF ~hd.ok THEN Failed(hd.err, hd.pos)
        ELSE IF ~len.ok THEN Failed(len.err, len.pos)
        ELSE IF ~h.ok THEN Failed(h.err, len.pos)
        ELSE IF len.val = 0
             THEN zero_length_packet(h.val.typ, len.pos)
        ELSE CASE h.val.typ \in BodyDecoders -> Dispatch(h.val, len.pos)
               [] h.val.typ = "Connack" -> Failed("UnsupportedPacketType", len.pos)
               [] h.val.typ \in {"Pingreq", "Pingresp"} ->
                      Failed("IncorrectPacketFormat", len.pos)
               [] OTHER -> Failed("UnsupportedPacketType", len.pos)

\* the Header and the position after the length field, once both were read
head_header(p) ==
    LET hd == read_u8(p, Len(stream))
        len == read_remaining_length(hd.pos, Len(stream))
        h == Header_new(hd.val, len.val)
    IN  IF hd.ok /\ len.ok /\ h.ok THEN h.val ELSE NoHeader

head_len_end(p) ==
    LET hd == read_u8(p, Len(stream))
        len == read_remaining_length(hd.pos, Len(stream))
    IN  IF hd.ok THEN len.pos ELSE hd.pos

ResultOf(o) == [kind |-> o.kind, err |-> o.err, packet |-> o.packet]

----------------------------------------------------------------------------
(* Actions *)

read_packet ==
    /\ pc = "idle"
    /\ LET o == read_packet_head(pos)
           h == head_header(pos)
       IN  /\ pos' = o.pos
           /\ start' = pos
           /\ len_end' = head_len_end(pos)
           /\ header' = h
           /\ raw_end' = IF o.kind = "body" THEN take(o.pos, h.len, Len(stream)) ELSE o.pos
           /\ result' = IF o.kind = "body" THEN NoResult ELSE ResultOf(o)
           /\ pc' = CASE o.kind # "body" -> "done"
                      [] h.typ = "Connect" -> "read_connect"
                      [] h.typ = "Publish" -> "read_publish"
                      [] h.typ = "Subscribe" -> "read_subscribe"
                      [] OTHER -> "read_unsubscribe"
    /\ calls' = calls + 1
    /\ pid' = 0
    /\ remaining_bytes' = 0
    /\ topics' = <<>>
    /\ UNCHANGED stream

read_connect ==
    /\ pc = "read_connect"
    /\ LET o == read_connect_body(pos, raw_end)
       IN  /\ pos' = o.pos
           /\ result' = ResultOf(o)
    /\ pc' = "done"
    /\ UNCHANGED <<stream, start, len_end, header, raw_end, pid, remaining_bytes,
                   topics, calls>>

read_publish ==
    /\ pc = "read_publish"
    /\ \E o \in read_publish_body(header, pos, raw_end) :
           /\ pos' = o.pos
           /\ result' = ResultOf(o)
    /\ pc' = "done"
    /\ UNCHANGED <<stream, start, len_end, header, raw_end, pid, remaining_bytes,
                   topics, calls>>

\* a step of a counted loop ended as o: the loop goes on, or the call is over
LoopStep(o, next) ==
    /\ pos' = o.pos
    /\ remaining_bytes' = o.remaining_bytes
    /\ topics' = o.topics
    /\ pc' = IF o.kind = "continue" THEN next ELSE "done"
    /\ result' = IF o.kind = "continue" THEN NoResult
                 ELSE [kind |-> o.kind, err |-> o.err, packet |-> NoPacket]

read_subscribe ==
    /\ pc = "read_subscribe"
    /\ \E o \in read_counted_entry(header, pos, raw_end) :
           /\ LoopStep(o, "subscribe_loop")
           /\ pid' = IF o.kind = "continue" THEN o.pid ELSE pid
    /\ UNCHANGED <<stream, start, len_end, header, raw_end, calls>>

subscribe_loop ==
    /\ pc = "subscribe_loop"
    /\ remaining_bytes # 0
    /\ \E o \in subscribe_iteration(pos, raw_end, remaining_bytes, topics) :
           LoopStep(o, "subscribe_loop")
    /\ UNCHANGED <<stream, start, len_end, header, raw_end, pid, calls>>

subscribe_return ==
    /\ pc = "subscribe_loop"
    /\ remaining_bytes = 0
    /\ result' = [kind |-> "ok", err |-> "",
                  packet |-> [typ |-> "Subscribe", pid |-> pid, topics |-> topics]]
    /\ pc' = "done"
    /\ UNCHANGED <<stream, pos, start, len_end, header, raw_end, pid,
                   remaining_bytes, topics, calls>>

read_unsubscribe ==
    /\ pc = "read_unsubscribe"
    /\ \E o \in read_counted_entry(header, pos, raw_end) :
           /\ LoopStep(o, "unsubscribe_loop")
           /\ pid' = IF o.kind = "continue" THEN o.pid ELSE pid
    /\ UNCHANGED <<stream, start, len_end, header, raw_end, calls>>

unsubscribe_loop ==
    /\ pc = "unsubscribe_loop"
    /\ remaining_bytes # 0
    /\ \E o \in unsubscribe_iteration(pos, raw_end, remaining_bytes, topics) :
           LoopStep(o, "unsubscribe_loop")
    /\ UNCHANGED <<stream, start, len_end, header, raw_end, pid, calls>>

unsubscribe_return ==
    /\ pc = "unsubscribe_loop"
    /\ remaining_bytes = 0
    /\ result' = [kind |-> "ok", err |-> "",
                  packet |-> [typ |-> "Unsubscribe", pid |-> pid, topics |-> topics]]
    /\ pc' = "done"
    /\ UNCHANGED <<stream, pos, start, len_end, header, raw_end, pid,
                   remaining_bytes, topics, calls>>

\* the caller reads the next packet from the same source
next_call ==
    /\ pc = "done"
    /\ result.kind # "panic"
    /\ calls < MaxCalls
    /\ pc' = "idle"
    /\ UNCHANGED <<stream, pos, start, len_end, header, raw_end, result, pid,
                   remaining_bytes, topics, calls>>

\* a caller that only decodes a remaining-length field
call_read_remaining_length ==
    /\ pc = "idle"
    /\ LET o == read_remaining_length(pos, Len(stream))
       IN  /\ pos' = o.pos
           /\ result' = IF o.ok
                        THEN [kind |-> "ok", err |-> "",
                              packet |-> [typ |-> "Length", len |-> o.val]]
                        ELSE [kind |-> "err", err |-> o.err, packet |-> NoPacket]
    /\ pc' = "done"
    /\ calls' = calls + 1
    /\ UNCHANGED <<stream, start, len_end, header, raw_end, pid, remaining_bytes,
                   topics>>

----------------------------------------------------------------------------
(* Input streams *)

SeqsUpTo(S, n) == UNION {[1..k -> S] : k \in 0..n}

RECURSIVE Flatten(_)
Flatten(ss) == IF ss = <<>> THEN <<>> ELSE Head(ss) \o Flatten(Tail(ss))

\* 'a', and the two bytes of U+00E9
StrBytes == {97, 195, 169}

\* a length-prefixed string field
StrField(c) == <<0, Len(c)>> \o c
StrFields == {StrField(c) : c \in SeqsUpTo(StrBytes, MaxStrLen)}

\* what may follow a packet in the stream: nothing, or a PINGREQ
Tails == {<<>>, <<192, 0>>}

\* a remaining-length field for l < 128, in one byte or in two
LenField(l, w) == IF w = 1 THEN <<l>> ELSE <<128 + l, 0>>

\* hd, a declared length around the body's, the whole body and a tail; or the
\* body's length declared and the stream cut short
Frames(hd, body) ==
    {<<hd>> \o LenField(l, w) \o body \o t :
         l \in 0..(Len(body) + 1), w \in 1..2, t \in Tails}
    \cup {<<hd, Len(body)>> \o SubSeq(body, 1, c) : c \in 0..(Len(body) - 1)}

NarrowFrames(hd, body) ==
    {<<hd, l>> \o body \o t : l \in (Len(body) - 1)..(Len(body) + 1), t \in Tails}
    \cup {<<hd, Len(body)>> \o SubSeq(body, 1, Len(body) - 1)}

\* CONNECT: every flags byte, and 0 to 5 one-letter strings "c" "t" "m" "u" "p"
ConnectStrings == <<StrField(<<99>>), StrField(<<116>>), StrField(<<109>>),
                    StrField(<<117>>), StrField(<<112>>)>>
ConnectBody(name, level, flags, k) ==
    StrField(name) \o <<level, flags, 0, 10>> \o Flatten(SubSeq(ConnectStrings, 1, k))
ConnectInputs ==
    UNION {NarrowFrames(16, ConnectBody(MQTT, 4, f, k)) \cup
           NarrowFrames(16, ConnectBody(MQIsdp, 3, f, k)) : f \in 0..255, k \in 0..5}
    \cup NarrowFrames(16, ConnectBody(MQTT, 3, 2, 1))

\* PUBLISH: QoS 0, 1, 2 and the invalid 3, with and without dup and retain
PublishHeaders == {48, 50, 52, 54, 57, 59}
PayloadByte(i) == IF i = 1 THEN 0 ELSE IF i = 2 THEN 10 ELSE 240 + i
PublishRest == {[i \in 1..k |-> PayloadByte(i)] : k \in 0..(MaxPayload + 2)}
PublishInputs ==
    UNION {Frames(hd, s \o r) : hd \in PublishHeaders, s \in StrFields, r \in PublishRest}

\* SUBSCRIBE / UNSUBSCRIBE: plain filters, then one filter of any generated shape
QoSBytes == {0, 2, 3}
PlainSubscribe == {<<0, 1, 97, 1>>, <<0, 0, 0>>}
PlainUnsubscribe == {<<0, 1, 97>>, <<0, 0>>}
SubscribeInputs ==
    UNION {Frames(130, <<1, 4>> \o Flatten(hs) \o l) :
               hs \in SeqsUpTo(PlainSubscribe, MaxTopics - 1),
               l \in {<<>>} \cup {s \o <<q>> : s \in StrFields, q \in QoSBytes}}
UnsubscribeInputs ==
    UNION {Frames(162, <<0, 15>> \o Flatten(hs) \o l) :
               hs \in SeqsUpTo(PlainUnsubscribe, MaxTopics - 1),
               l \in {<<>>} \cup StrFields}

\* every type code with a zero length, with a body, with a malformed length
OtherInputs ==
    UNION {{<<16 * t + f, 0>> \o tl : tl \in Tails}
           \cup {<<16 * t + f>>, <<16 * t + f, 2, 0, 0>>,
                 <<16 * t + f, 255, 255, 255, 255>>,
                 <<16 * t + f, 255, 255, 255, 255, 1>>,
                 <<16 * t + f, 255, 255, 255, 127>>} : t \in 0..15, f \in {0, 2}}
    \cup {<<>>}

Inputs ==
    ConnectInputs \cup PublishInputs \cup SubscribeInputs \cup UnsubscribeInputs
    \cup OtherInputs

LengthBytes == {0, 1, 127, 128, 255}
LengthInputs == SeqsUpTo(LengthBytes, MaxLenBytes)

----------------------------------------------------------------------------
(* Specifications *)

InitOn(S) ==
    /\ stream \in S
    /\ pos = 0
    /\ pc = "idle"
    /\ start = 0
    /\ len_end = 0
    /\ header = NoHeader
    /\ raw_end = 0
    /\ result = NoResult
    /\ pid = 0
    /\ remaining_bytes = 0
    /\ topics = <<>>
    /\ calls = 0

Init == InitOn(Inputs)

Next ==
    \/ read_packet
    \/ read_connect
    \/ read_publish
    \/ read_subscribe
    \/ subscribe_loop
    \/ subscribe_return
    \/ read_unsubscribe
    \/ unsubscribe_loop
    \/ unsubscribe_return
    \/ next_call

Spec == Init /\ [][Next]_vars

InitLen == InitOn(LengthInputs)

NextLen == call_read_remaining_length

SpecLen == InitLen /\ [][NextLen]_vars

----------------------------------------------------------------------------
(* Vocabulary of the properties *)

Done == pc = "done"

\* the current call built a Header and went on to a body decoder
HasBody == header # NoHeader /\ header.len > 0 /\ header.typ \in BodyDecoders

\* one past the last byte of the declared body
BodyEnd == len_end + header.len

\* the source holds the whole declared body
StreamComplete == Len(stream) >= BodyEnd

ReturnedPacket(typ) == Done /\ result.kind = "ok" /\ result.packet.typ = typ

\* the two bytes at p + 1 and p + 2 as a big-endian length
DeclaredAt(p) == 256 * stream[p + 1] + stream[p + 2]

\* the string field at p as it lies on the wire, clipped to the body and the stream
WireEnd(p) == Min(Min(p + 2 + DeclaredAt(p), BodyEnd), Len(stream))
WireString(p) == SubSeq(stream, p + 3, WireEnd(p))

----------------------------------------------------------------------------
(* C1 *)

\* C1: a packet with a valid fixed header whose stream ends before the declared
\* remaining length is rejected: read_packet never returns a packet value for it.
C1_TruncatedRejected ==
    (Done /\ HasBody /\ ~StreamComplete) => result.kind # "ok"

----------------------------------------------------------------------------
(* C2 *)

\* C2: a successful read_packet of a CONNECT, PUBLISH, SUBSCRIBE or UNSUBSCRIBE
\* whose whole declared body is in the stream leaves the cursor exactly at the
\* end of the declared body: 1 header byte + the length field + remaining length.
C2_ConsumesDeclaredLength ==
    (Done /\ HasBody /\ StreamComplete /\ result.kind = "ok") => pos = BodyEnd

----------------------------------------------------------------------------
(* C3 *)

\* C3: no call, successful or failing, moves the cursor past the end of the
\* declared body: pos <= start + 1 + length-field bytes + remaining length.
C3_NeverPastDeclaredLength ==
    (pc # "idle" /\ header # NoHeader) => pos <= BodyEnd

\* an UNSUBSCRIBE whose only filter declares a byte that lies beyond the body,
\* with that byte queued in the stream: the filter came out empty and the
\* cursor stopped at the end of the body
C3_Witness ==
    /\ ReturnedPacket("Unsubscribe")
    /\ pos = BodyEnd
    /\ Len(stream) > pos
    /\ DeclaredAt(pos - 2) > 0
    /\ result.packet.topics = << <<>> >>

----------------------------------------------------------------------------
(* C4 and C5: read_remaining_length on its own, from position 0 (SpecLen) *)

\* the stream starts with a well-formed length field of k bytes
WellFormedLength(k) ==
    /\ Len(stream) >= k
    /\ \A i \in 1..(k - 1) : stream[i] >= 128
    /\ stream[k] < 128

RECURSIVE LengthValue(_)
LengthValue(k) ==
    IF k = 0 THEN 0
    ELSE LengthValue(k - 1) + (stream[k] % 128) * Pow(128, k - 1)

\* C4: a well-formed field of 1 to 4 bytes decodes to the sum of
\* (byte_i & 0x7F) * 128^i and the cursor stops right after its last byte.
C4_DecodesWellFormedLength ==
    Done => \A k \in 1..4 :
                WellFormedLength(k) =>
                    /\ result.kind = "ok"
                    /\ result.packet.len = LengthValue(k)
                    /\ pos = k

\* the 4-byte maximum
C4_Witness ==
    /\ Done
    /\ SubSeq(stream, 1, Min(4, Len(stream))) = <<255, 255, 255, 127>>
    /\ result.kind = "ok"
    /\ result.packet.len = 268435455
    /\ pos = 4

\* C5: four length bytes that all carry the continuation bit end in
\* MalformedRemainingLength, whatever follows them in the stream.
C5_FourContinuationBytesMalformed ==
    (Done /\ Len(stream) >= 4 /\ \A i \in 1..4 : stream[i] >= 128)
        => (result.kind = "err" /\ result.err = "MalformedRemainingLength")

----------------------------------------------------------------------------
(* C6 *)

\* the length field of the current call, decoded again
LengthOfCall == read_remaining_length(start + 1, Len(stream))

ZeroLengthCall ==
    /\ Done
    /\ Len(stream) > start
    /\ LengthOfCall.ok
    /\ LengthOfCall.val = 0

TypeCode == stream[start + 1] \div 16

----------------------------------------------------------------------------
(* C7 and C8: PUBLISH *)

QoSBits == (header.hd \div 2) % 4

\* C7: a decoded PUBLISH has a packet identifier exactly when its QoS is not
\* "at most once", its payload is as long as the remaining length minus the
\* topic field minus the identifier, and dup, QoS and retain are the header's bits.
C7_PublishFields ==
    ReturnedPacket("Publish") =>
        LET pk == result.packet
        IN  /\ pk.pid.some <=> (pk.qos # "AtMostOnce")
            /\ Len(pk.payload) = header.len - (2 + Len(pk.topic_name))
                                 - (IF pk.pid.some THEN 2 ELSE 0)
            /\ pk.dup = ((header.hd \div 8) % 2 = 1)
            /\ pk.qos = QoSNames[QoSBits + 1]
            /\ pk.retain = (header.hd % 2 = 1)

\* C8: a PUBLISH with QoS bits 11 ends in an error value returned to the caller,
\* and that error is InvalidQoS once the topic name was read.
C8_InvalidQoSReturned ==
    (Done /\ HasBody /\ header.typ = "Publish" /\ QoSBits = 3) =>
        /\ result.kind = "err"
        /\ (read_mqtt_string(len_end, raw_end).ok => result.err = "InvalidQoS")

----------------------------------------------------------------------------
(* C9: CONNECT *)

\* where the fields of a CONNECT body lie on the wire
ConnectFlagsAt == WireEnd(len_end) + 2
ClientIdAt == WireEnd(len_end) + 4
WillTopicAt == WireEnd(ClientIdAt)
WillMessageAt == WireEnd(WillTopicAt)
AfterWillAt == WireEnd(WillMessageAt)

\* protocol, flags, keep-alive and client id were read: decoding got to the
\* match on the will flag
ReachedWillMatch ==
    LET name == read_mqtt_string(len_end, raw_end)
        level == read_u8(name.pos, raw_end)
        flags == read_u8(level.pos, raw_end)
        keep_alive == read_u16(flags.pos, raw_end)
        client_id == read_mqtt_string(keep_alive.pos, raw_end)
    IN  /\ name.ok
        /\ level.ok
        /\ Protocol_new(name.val, level.val).ok
        /\ flags.ok
        /\ keep_alive.ok
        /\ client_id.ok

\* C9: a decoded Connect carries a LastWill exactly when the will flag
\* (0b00000100) is set, and then will topic and will message are the two fields
\* right after the client id, before username and password; a call that got to
\* the will flag with the flag clear and will-QoS bits (0b00011000) set ends in
\* IncorrectPacketFormat; a call that did not get there returns no packet.
C9_WillFlagGatesLastWill ==
    (Done /\ HasBody /\ header.typ = "Connect") =>
        IF ~ReachedWillMatch THEN result.kind # "ok"
        ELSE LET flags == stream[ConnectFlagsAt]
                 will == (flags \div 4) % 2 = 1
                 will_qos == (flags \div 8) % 4
                 pk == result.packet
             IN  /\ (~will /\ will_qos # 0) =>
                        (result.kind = "err" /\ result.err = "IncorrectPacketFormat")
                 /\ result.kind = "ok" => (pk.last_will.some <=> will)
                 /\ (result.kind = "ok" /\ will) =>
                        /\ pk.last_will.val.topic = WireString(WillTopicAt)
                        /\ pk.last_will.val.message = WireString(WillMessageAt)
                        /\ pk.username.some =>
                               pk.username.val = WireString(AfterWillAt)
                        /\ (~pk.username.some /\ pk.password.some) =>
                               pk.password.val = WireString(AfterWillAt)
                 /\ (result.kind = "ok" /\ ~will /\ pk.username.some) =>
                        pk.username.val = WireString(WillTopicAt)

\* client id "c", will "t" / "m", username "u", in that order
C9_Witness ==
    /\ ReturnedPacket("Connect")
    /\ result.packet.client_id = <<99>>
    /\ result.packet.last_will.some
    /\ result.packet.last_will.val.topic = <<116>>
    /\ result.packet.last_will.val.message = <<109>>
    /\ result.packet.username = Some(<<117>>)

----------------------------------------------------------------------------
(* C10: the counter of read_subscribe and read_unsubscribe *)

CountedPcs == {"read_subscribe", "subscribe_loop", "read_unsubscribe", "unsubscribe_loop"}

\* the filters of the body as they lie on the wire, each followed by `extra` bytes
RECURSIVE WireFilters(_, _)
WireFilters(p, extra) ==
    IF p + 2 > Min(BodyEnd, Len(stream)) THEN <<>>
    ELSE <<WireString(p)>> \o WireFilters(WireEnd(p) + extra, extra)

FiltersOf(packet) ==
    IF packet.typ = "Subscribe"
    THEN [i \in 1..Len(packet.topics) |-> packet.topics[i][1]]
    ELSE packet.topics

\* what every step of the two counted decoders keeps
C10_Step ==
        pc \in CountedPcs =>
          /\ result'.kind # "panic"
          /\ remaining_bytes' >= 0
          /\ pc' = pc => remaining_bytes' < remaining_bytes
          /\ result'.kind = "ok" =>
                 /\ remaining_bytes' = 0
                 /\ pos' = BodyEnd
                 /\ FiltersOf(result'.packet) =
                        WireFilters(len_end + 2,
                                    IF header.typ = "Subscribe" THEN 1 ELSE 0)

\* C10: no step of read_subscribe or read_unsubscribe underflows the counter
\* (no overflow panic, no wrapped value), every completed iteration makes it
\* strictly smaller, and a packet is returned only with the counter at zero,
\* the whole body consumed and the filters in wire order.
C10_CounterNeverUnderflows == [][C10_Step]_vars

\* an UNSUBSCRIBE returned with two filters, the last of which declared more
\* bytes than the body had left
C10_Witness ==
    /\ ReturnedPacket("Unsubscribe")
    /\ remaining_bytes = 0
    /\ Len(topics) = 2
    /\ DeclaredAt(pos - Len(topics[2]) - 2) > Len(topics[2])

====
